---------------------------- MODULE Spec2Model ----------------------------
(***************************************************************************)
(* A model of the transcript segmentation and synchronisation core of      *)
(* MeetMind-ai: the Transcript component (src/src/components/              *)
(* Transcript.tsx) and the helpers of src/src/utils/transcriptUtils.ts.    *)
(*                                                                         *)
(* Representation.                                                         *)
(*   - A JavaScript string is a sequence of one-character strings, so      *)
(*     that split, trim, padStart and the regular expressions of cleanText *)
(*     are computed character by character.                                *)
(*   - Times are integers in milliseconds (0.6 s is 600), so that          *)
(*     Math.floor and the strict comparison with the pause threshold act   *)
(*     on fractional seconds.                                              *)
(*   - An optional number (Word.start, Word.end) is <<>> when it is        *)
(*     undefined and <<n>> when it is the number n. The same shape holds   *)
(*     the result of Number(): <<>> is NaN.                                *)
(*                                                                         *)
(* Scheduling. Each handler (an effect run, the continuation of an await)  *)
(* is one action. The await of processTranscript is the only suspension    *)
(* point: a call sits in the queue pending from its await until its        *)
(* continuation runs, and other handlers may run in between. The state     *)
(* written by setState is taken as set when the handler ends, and the      *)
(* effects of the re-render it causes are part of the same action.         *)
(*                                                                         *)
(* Specifications.                                                         *)
(*   - Spec: the Transcript component under well-formed word lists.        *)
(*   - SpecAny: the component when the word list may hold the entry null   *)
(*     or a text that is not a string, or is not sorted by start.          *)
(*   - SpecIndex: the Index page (src/unnamed/part_002) handing a backend  *)
(*     result to the component, before and after its sort effect, with     *)
(*     the time updates of the player and the clicks on a timestamp.       *)
(*   - Calls: formatTime, convertToHHMMSS, formatTranscript, cleanText     *)
(*     and timeToSeconds called on their own, on word lists and strings    *)
(*     put together entry by entry.                                        *)
(*   - Polls: the polling loop of transcribeAudio                          *)
(*     (src/src/services/AIService.ts), one response per attempt.          *)
(*   - Player: the slider, the timeupdate event and the interval of the    *)
(*     MediaPlayer (src/src/components/MediaPlayer.tsx).                   *)
(*   - Uploads: handleFileSelected of the Index page and its button        *)
(*     Upload New File, a call suspended at each of its awaits.            *)
(***************************************************************************)
EXTENDS Integers, Sequences, FiniteSets, TLC

(***************************************************************************)
(* Characters and strings                                                  *)
(***************************************************************************)
DigitChars == <<"0", "1", "2", "3", "4", "5", "6", "7", "8", "9">>

IsDigit(c) == \E d \in 1..10 : DigitChars[d] = c

DigitValue(c) == (CHOOSE d \in 1..10 : DigitChars[d] = c) - 1

\* \s of the regular expressions and the characters String.prototype.trim removes
IsSpace(c) == c \in {" ", "\t", "\n"}

\* the character class [.,!?] of cleanText
IsPunct(c) == c \in {".", ",", "!", "?"}

Tail2(s, k) == SubSeq(s, k, Len(s))

RECURSIVE TrimStart(_)
TrimStart(s) ==
  IF s # <<>> /\ IsSpace(Head(s)) THEN TrimStart(Tail(s)) ELSE s

RECURSIVE TrimEnd(_)
TrimEnd(s) ==
  IF s # <<>> /\ IsSpace(s[Len(s)]) THEN TrimEnd(SubSeq(s, 1, Len(s) - 1)) ELSE s

\* String.prototype.trim
Trim(s) == TrimEnd(TrimStart(s))

\* Number.prototype.toString of a non-negative integer
RECURSIVE NumToString(_)
NumToString(n) ==
  IF n < 10 THEN <<DigitChars[n + 1]>>
  ELSE NumToString(n \div 10) \o <<DigitChars[(n % 10) + 1]>>

\* s.padStart(2, '0')
PadStart2(s) == IF Len(s) = 0 THEN <<"0", "0">>
                ELSE IF Len(s) = 1 THEN <<"0">> \o s
                ELSE s

\* s.split(':')
RECURSIVE SplitColon(_, _)
SplitColon(s, cur) ==
  IF s = <<>> THEN <<cur>>
  ELSE IF Head(s) = ":" THEN <<cur>> \o SplitColon(Tail(s), <<>>)
  ELSE SplitColon(Tail(s), Append(cur, Head(s)))

Split(s) == SplitColon(s, <<>>)

\* Number(field) of a field of digits: <<n>>; the empty field is 0; any other
\* field is NaN, <<>>
RECURSIVE DigitsValue(_, _)
DigitsValue(s, acc) ==
  IF s = <<>> THEN acc ELSE DigitsValue(Tail(s), acc * 10 + DigitValue(Head(s)))

ToNumber(field) ==
  IF \A i \in 1..Len(field) : IsDigit(field[i]) THEN <<DigitsValue(field, 0)>>
  ELSE <<>>

\* array.join(' ')
RECURSIVE JoinSpace(_)
JoinSpace(parts) ==
  IF parts = <<>> THEN <<>>
  ELSE IF Len(parts) = 1 THEN parts[1]
  ELSE parts[1] \o <<" ">> \o JoinSpace(Tail(parts))

\* array.join(':')
RECURSIVE JoinColon(_)
JoinColon(parts) ==
  IF parts = <<>> THEN <<>>
  ELSE IF Len(parts) = 1 THEN parts[1]
  ELSE parts[1] \o <<":">> \o JoinColon(Tail(parts))

(***************************************************************************)
(* transcriptUtils.ts                                                      *)
(***************************************************************************)
\* a bug formatTime could have: Math.round in place of Math.floor for the seconds
formatTimeRounded(seconds) ==
  LET secs == IF seconds = <<>> THEN 0 ELSE IF seconds[1] < 0 THEN 0 ELSE seconds[1]
      hours == secs \div 3600000
      mins == (secs % 3600000) \div 60000
      remainingSecs == ((secs % 60000) + 500) \div 1000
  IN IF hours > 0
     THEN JoinColon(<<PadStart2(NumToString(hours)), PadStart2(NumToString(mins)),
                      PadStart2(NumToString(remainingSecs))>>)
     ELSE JoinColon(<<PadStart2(NumToString(mins)), PadStart2(NumToString(remainingSecs))>>)

\* a bug formatTime could have: the hours field written also under one hour
formatTimeAlwaysHours(seconds) ==
  LET secs == IF seconds = <<>> THEN 0 ELSE IF seconds[1] < 0 THEN 0 ELSE seconds[1]
      hours == secs \div 3600000
      mins == (secs % 3600000) \div 60000
      remainingSecs == (secs % 60000) \div 1000
  IN JoinColon(<<PadStart2(NumToString(hours)), PadStart2(NumToString(mins)),
                 PadStart2(NumToString(remainingSecs))>>)

\* formatTime(seconds): seconds is Number(seconds), <<ms>> in milliseconds or
\* <<>> for NaN. MM:SS under one hour, HH:MM:SS from one hour on.
formatTime(seconds) ==
  LET secs == IF seconds = <<>> THEN 0 ELSE IF seconds[1] < 0 THEN 0 ELSE seconds[1]
      hours == secs \div 3600000
      mins == (secs % 3600000) \div 60000
      remainingSecs == (secs % 60000) \div 1000
  IN IF hours > 0
     THEN JoinColon(<<PadStart2(NumToString(hours)), PadStart2(NumToString(mins)),
                      PadStart2(NumToString(remainingSecs))>>)
     ELSE JoinColon(<<PadStart2(NumToString(mins)), PadStart2(NumToString(remainingSecs))>>)

\* Number.prototype.toString of an integer
IntToString(n) == IF n < 0 THEN <<"-">> \o NumToString(-n) ELSE NumToString(n)

\* the remainder a % b of JavaScript for b > 0: it has the sign of a
JsRem(a, b) == IF a >= 0 THEN a % b ELSE -((-a) % b)

\* a bug convertToHHMMSS could have: the hours field left out under one hour,
\* as formatTime does
TwoOrThreeFields(ms) ==
  LET hours == ms \div 3600000
      minutes == JsRem(ms, 3600000) \div 60000
      seconds == JsRem(ms, 60000) \div 1000
  IN IF hours > 0
     THEN JoinColon(<<PadStart2(IntToString(hours)), PadStart2(IntToString(minutes)),
                      PadStart2(IntToString(seconds))>>)
     ELSE JoinColon(<<PadStart2(IntToString(minutes)), PadStart2(IntToString(seconds))>>)

\* the numeric branch of convertToHHMMSS for totalSeconds = ms milliseconds:
\* the three fields, each padded to two characters, joined by ':'
ThreeFields(ms) ==
  LET hours == ms \div 3600000
      minutes == JsRem(ms, 3600000) \div 60000
      seconds == JsRem(ms, 60000) \div 1000
  IN JoinColon(<<PadStart2(IntToString(hours)), PadStart2(IntToString(minutes)),
                 PadStart2(IntToString(seconds))>>)

\* the arguments of convertToHHMMSS: a string, a number (<<ms>>, or <<>> for
\* NaN), or undefined
StringArg(chars) == [type |-> "string", str |-> chars]

NumberArg(num) == [type |-> "number", num |-> num]

UndefinedArg == [type |-> "undefined"]

ZeroClock == <<"0", "0", ":", "0", "0", ":", "0", "0">>

\* minutes * 60 + seconds of two Number() results, in milliseconds; NaN absorbs
MinutesSeconds(minutes, seconds) ==
  IF minutes = <<>> \/ seconds = <<>> THEN <<>>
  ELSE <<(minutes[1] * 60 + seconds[1]) * 1000>>

RECURSIVE convertToHHMMSS(_)
convertToHHMMSS(timeStr) ==
  IF \/ timeStr.type = "undefined"
     \/ (timeStr.type = "string" /\ timeStr.str = <<>>)
     \/ (timeStr.type = "number" /\ timeStr.num = <<>>)
  THEN ZeroClock
  ELSE IF timeStr.type = "number" THEN ThreeFields(timeStr.num[1])
  ELSE IF ToNumber(timeStr.str) # <<>> THEN ThreeFields(ToNumber(timeStr.str)[1] * 1000)
  ELSE IF Len(Split(timeStr.str)) = 3 THEN timeStr.str
  ELSE IF Len(Split(timeStr.str)) >= 2
       THEN convertToHHMMSS(NumberArg(MinutesSeconds(ToNumber(Split(timeStr.str)[1]),
                                                     ToNumber(Split(timeStr.str)[2]))))
  ELSE ZeroClock

\* .replace(/\s+/g, ' ')
RECURSIVE CollapseSpaces(_)
CollapseSpaces(s) ==
  IF s = <<>> THEN <<>>
  ELSE IF IsSpace(Head(s)) THEN <<" ">> \o CollapseSpaces(TrimStart(s))
  ELSE <<Head(s)>> \o CollapseSpaces(Tail(s))

\* the spaces before a mark stay
KeepSpaceBeforePunct(s) == s

\* .replace(/\s+([.,!?])/g, '$1')
RECURSIVE RemoveSpaceBeforePunct(_)
RemoveSpaceBeforePunct(s) ==
  IF s = <<>> THEN <<>>
  ELSE IF IsSpace(Head(s))
       THEN LET rest == TrimStart(s)
                run == SubSeq(s, 1, Len(s) - Len(rest))
            IN IF rest # <<>> /\ IsPunct(Head(rest))
               THEN <<Head(rest)>> \o RemoveSpaceBeforePunct(Tail(rest))
               ELSE run \o RemoveSpaceBeforePunct(rest)
  ELSE <<Head(s)>> \o RemoveSpaceBeforePunct(Tail(s))

\* no space is put after a mark
NoSpaceAfterPunct(s) == s

\* .replace(/([.,!?])([^\s])/g, '$1 $2'): the matches do not overlap, so the
\* character matched as $2 is not looked at again as a $1
RECURSIVE AddSpaceAfterPunct(_)
AddSpaceAfterPunct(s) ==
  IF s = <<>> THEN <<>>
  ELSE IF IsPunct(Head(s)) /\ Len(s) >= 2 /\ ~IsSpace(s[2])
       THEN <<s[1], " ", s[2]>> \o AddSpaceAfterPunct(Tail2(s, 3))
  ELSE <<Head(s)>> \o AddSpaceAfterPunct(Tail(s))

cleanText(text) ==
  IF text = <<>> THEN <<>>
  ELSE Trim(AddSpaceAfterPunct(RemoveSpaceBeforePunct(Trim(CollapseSpaces(text)))))

\* x || 0 of an optional number
OrZero(x) == IF x = <<>> THEN 0 ELSE x[1]

PAUSE_THRESHOLD == 2

\* An entry of a word list is a record with the fields of Word. The malformed
\* entries: the entry null is NullEntry, which has no field text; a text that
\* is not a string is held as the characters of String(text), the field
\* textType saying what it is, "nullish" (null or undefined) or "number".
NullEntry == [entry |-> "null"]

IsNullEntry(word) == "text" \notin DOMAIN word

TextType(word) == IF "textType" \in DOMAIN word THEN word.textType ELSE "string"

\* a pause of exactly the threshold counts as long
isLongPauseInclusive(words, i) ==
  /\ i > 1
  /\ ~IsNullEntry(words[i - 1])
  /\ OrZero(words[i].start) > 0
  /\ OrZero(words[i - 1].end) > 0
  /\ OrZero(words[i].start) - OrZero(words[i - 1].end) >= PAUSE_THRESHOLD * 1000

\* the long-pause test of formatTranscript for words[i], i >= 1 (1-based);
\* prevWord && ... is falsy for the entry null
isLongPause(words, i) ==
  /\ i > 1
  /\ ~IsNullEntry(words[i - 1])
  /\ OrZero(words[i].start) > 0
  /\ OrZero(words[i - 1].end) > 0
  /\ OrZero(words[i].start) - OrZero(words[i - 1].end) > PAUSE_THRESHOLD * 1000

\* the buffer is dropped
DropSegment(segments, currentSegment, segmentStart) == segments

\* only the first word of the buffer goes into the segment
PushFirstWord(segments, currentSegment, segmentStart) ==
  Append(segments, [text |-> cleanText(currentSegment[1]),
                    startTime |-> formatTime(<<segmentStart>>)])

\* the segment pushed for a buffer, none when its cleaned text is empty
PushSegment(segments, currentSegment, segmentStart) ==
  LET segmentText == cleanText(JoinSpace(currentSegment))
  IN IF segmentText # <<>>
     THEN Append(segments, [text |-> segmentText, startTime |-> formatTime(<<segmentStart>>)])
     ELSE segments

\* The for loop of formatTranscript from words[i] on, and the final push: the
\* segments it returns, or threw when word.text.trim is not a function. The
\* test !word?.text?.trim() skips the entry null, a nullish text and a blank
\* string, and throws a TypeError on any other text that is not a string.
RECURSIVE FormatLoop(_, _, _, _, _)
FormatLoop(words, i, segments, currentSegment, segmentStart) ==
  IF i > Len(words)
  THEN [threw |-> FALSE,
        segments |-> IF currentSegment # <<>>
                     THEN PushSegment(segments, currentSegment, segmentStart)
                     ELSE segments]
  ELSE LET word == words[i]
       IN IF IsNullEntry(word) \/ TextType(word) = "nullish"
          THEN FormatLoop(words, i + 1, segments, currentSegment, segmentStart)
          ELSE IF TextType(word) # "string"
          THEN [threw |-> TRUE, segments |-> <<>>]
          ELSE IF Trim(word.text) = <<>>
          THEN FormatLoop(words, i + 1, segments, currentSegment, segmentStart)
          ELSE IF (isLongPause(words, i) \/ i = 1) /\ currentSegment # <<>>
               THEN FormatLoop(words, i + 1,
                               PushSegment(segments, currentSegment, segmentStart),
                               <<Trim(word.text)>>, OrZero(word.start))
               ELSE FormatLoop(words, i + 1, segments,
                               Append(currentSegment, Trim(word.text)), segmentStart)

\* the try block of formatTranscript; segmentStart starts as words[0]?.start || 0
TryFormat(words) ==
  IF words = <<>> THEN [threw |-> FALSE, segments |-> <<>>]
  ELSE FormatLoop(words, 1, <<>>, <<>>,
                  IF IsNullEntry(words[1]) THEN 0 ELSE OrZero(words[1].start))

\* a bug formatTranscript could have: segmentStart taken from the last word
\* of the list
formatTranscriptLastStart(words) ==
  IF words = <<>> THEN <<>>
  ELSE FormatLoop(words, 1, <<>>, <<>>,
                  IF IsNullEntry(words[Len(words)]) THEN 0
                  ELSE OrZero(words[Len(words)].start)).segments

\* formatTranscript(words): what the try block returns, and [] from the catch
\* block (the segments of a run that threw are <<>>)
formatTranscript(words) == TryFormat(words).segments

(***************************************************************************)
(* Transcript.tsx: the pure parts                                          *)
(***************************************************************************)
\* parts.reduce((total, part, index) => total + part * 60^index, 0) over the
\* reversed fields, field k of n having the weight 60^(n-k); NaN absorbs
RECURSIVE Pow60(_)
Pow60(k) == IF k = 0 THEN 1 ELSE 60 * Pow60(k - 1)

RECURSIVE SumFields(_, _)
SumFields(parts, total) ==
  IF parts = <<>> THEN <<total>>
  ELSE IF Head(parts) = <<>> THEN <<>>
  ELSE SumFields(Tail(parts), total + Head(parts)[1] * Pow60(Len(parts) - 1))

\* a bug timeToSeconds could have: the fields not reversed, so that the first
\* field has the weight 1
timeToSecondsNoReverse(timeStr) ==
  LET fields == Split(timeStr)
      n == Len(fields)
  IN SumFields([k \in 1..n |-> ToNumber(fields[n + 1 - k])], 0)

\* timeToSeconds(timeStr): <<seconds>>, or <<>> for NaN
timeToSeconds(timeStr) ==
  LET fields == Split(timeStr)
  IN SumFields([k \in 1..Len(fields) |-> ToNumber(fields[k])], 0)


\* the first index (0-based) from position k (1-based) on whose segment passes
\* the test of findIndex: currentTime >= segmentStart && currentTime <
\* nextSegmentStart, nextSegmentStart being Infinity for the last segment; a
\* comparison with NaN is false. t is in milliseconds.
RECURSIVE FindIndexFrom(_, _, _)
FindIndexFrom(segs, k, t) ==
  IF k > Len(segs) THEN -1
  ELSE LET segmentStart == timeToSeconds(segs[k].startTime)
           nextSegmentStart == IF k < Len(segs) THEN timeToSeconds(segs[k + 1].startTime)
                               ELSE <<>>
           geStart == segmentStart # <<>> /\ t >= segmentStart[1] * 1000
           ltNext == IF k < Len(segs)
                     THEN nextSegmentStart # <<>> /\ t < nextSegmentStart[1] * 1000
                     ELSE TRUE
       IN IF geStart /\ ltNext THEN k - 1 ELSE FindIndexFrom(segs, k + 1, t)

\* a bug FindActive could have: the last segment's end taken as its own start
\* instead of Infinity
RECURSIVE FindIndexFromNoInfinity(_, _, _)
FindIndexFromNoInfinity(segs, k, t) ==
  IF k > Len(segs) THEN -1
  ELSE LET segmentStart == timeToSeconds(segs[k].startTime)
           nextSegmentStart == IF k < Len(segs) THEN timeToSeconds(segs[k + 1].startTime)
                               ELSE segmentStart
           geStart == segmentStart # <<>> /\ t >= segmentStart[1] * 1000
           ltNext == nextSegmentStart # <<>> /\ t < nextSegmentStart[1] * 1000
       IN IF geStart /\ ltNext THEN k - 1 ELSE FindIndexFromNoInfinity(segs, k + 1, t)

FindActiveNoInfinity(segs, t) == FindIndexFromNoInfinity(segs, 1, t)

\* memoizedSegments.findIndex(...) of the active-segment effect
FindActive(segs, t) == FindIndexFrom(segs, 1, t)

\* a bug the guard could have: no comparison with the recorded index
AlwaysUpdateActive(activeIndex, last) == TRUE

\* activeIndex !== lastActiveIndex.current
ShouldUpdateActive(activeIndex, last) == activeIndex # last

\* The active-segment effect for the list segs and the time t, last being
\* lastActiveIndex.current: what it computed (<<>> when it returned early on an
\* empty list), whether it called setActiveSegmentIndex, and with which index.
ActiveEffect(segs, t, last) ==
  IF segs = <<>>
  THEN [computed |-> <<>>, set |-> FALSE, index |-> last]
  ELSE LET activeIndex == FindActive(segs, t)
       IN [computed |-> <<activeIndex>>,
           set |-> ShouldUpdateActive(activeIndex, last),
           index |-> activeIndex]

\* The array of `${w.start}-${w.end}-${w.text}` strings behind transcriptionId
\* and currentId. JSON.stringify of an array of strings is injective, and so is
\* the template for numbers (or undefined) followed by '-' and the text, so an
\* id is held as the list of (start, end, text) triples; confidence and speaker
\* are not part of it.
Fingerprint(words) ==
  [k \in 1..Len(words) |-> <<words[k].start, words[k].end, words[k].text>>]

\* w.start of the entry null throws a TypeError: the map behind transcriptionId
\* and currentId throws when the list holds such an entry
FingerprintThrows(words) == \E k \in 1..Len(words) : IsNullEntry(words[k])

\* the initial lastProcessedId, '', which is the id of no non-empty word list
NoId == <<>>

\* a bug the guard could have: the comparison left out
NeverSkip(currentId, lastId) == FALSE

\* currentId === lastProcessedId.current
ShouldSkip(currentId, lastId) == currentId = lastId

\* a bug the commit could have: the new segments appended to the old list
AppendSegments(prev, segments) == prev \o segments

\* setFormattedSegments(segments): the list is replaced as a whole
CommitSegments(prev, segments) == segments

(***************************************************************************)
(* The inputs of the Transcript component                                  *)
(***************************************************************************)
\* a Word of transcriptUtils.ts; confidence in percent
Word(text, start, end, confidence) ==
  [text |-> text, start |-> <<start>>, end |-> <<end>>, confidence |-> confidence]

\* a token whose text is a number, text being the characters of String(text)
NumberTextWord(text, start, end, confidence) ==
  [text |-> text, textType |-> "number", start |-> <<start>>, end |-> <<end>>,
   confidence |-> confidence]

\* Hello(0-0.5) world.(0.6-1.0) Next(5.0-5.3) topic.(5.4-5.8)
WordsHello ==
  << Word(<<"H", "e", "l", "l", "o">>, 0, 500, 100),
     Word(<<"w", "o", "r", "l", "d", ".">>, 600, 1000, 100),
     Word(<<"N", "e", "x", "t">>, 5000, 5300, 100),
     Word(<<"t", "o", "p", "i", "c", ".">>, 5400, 5800, 100) >>

\* the same (start, end, text) triples in another array of other objects
WordsHelloAgain ==
  [k \in 1..Len(WordsHello) |-> [WordsHello[k] EXCEPT !.confidence = 90]]

\* three words 10 s apart: segments starting at 0 s, 10 s and 20 s
WordsThree ==
  << Word(<<"a">>, 0, 1000, 100),
     Word(<<"b">>, 10000, 11000, 100),
     Word(<<"c">>, 20000, 21000, 100) >>

\* tokens not sorted by start, with a blank token: segments starting at 5 s,
\* 10 s and 3 s
WordsUnsorted ==
  << Word(<<"a">>, 5000, 6000, 100),
     Word(<<"b">>, 10000, 11000, 100),
     Word(<<" ">>, 200, 300, 100),
     Word(<<"c">>, 3000, 4000, 100) >>

\* a non-empty word list with no segment
WordsBlank == << Word(<<" ">>, 0, 1000, 100) >>

\* the non-empty word lists a parent passes
WordLists == {WordsHello, WordsHelloAgain, WordsThree, WordsUnsorted, WordsBlank}

\* the values of the transcription prop: null, or an object with a word list
\* (which may be empty)
Transcriptions ==
  {[isNull |-> TRUE, words |-> <<>>]}
    \cup {[isNull |-> FALSE, words |-> w] : w \in WordLists \cup {<<>>}}

\* the values of the currentTime prop, in milliseconds
Times == {-1000, 0, 4000, 9999, 10000, 25000}

\* the number of times the transcription prop changes
MaxDeliveries == 3

\* a word list with a token whose text is the number 5: formatTranscript
\* throws in its loop and returns [] from its catch block
WordsNumberText ==
  << Word(<<"a">>, 0, 500, 100),
     NumberTextWord(<<"5">>, 1000, 1500, 100) >>

\* a word list with the entry null
WordsNullEntry == << Word(<<"a">>, 0, 500, 100), NullEntry >>

\* a word list as it comes from the backend, not sorted by start: the pause
\* before the third word opens a second segment, and both segments start at
\* 4 s
WordsSameStart ==
  << Word(<<"a">>, 4000, 4500, 100),
     Word(<<"b">>, 500, 1000, 100),
     Word(<<"c">>, 4000, 4500, 100) >>

\* the values of the transcription prop when the backend's tokens may be
\* malformed or out of order
TranscriptionsAny ==
  {[isNull |-> TRUE, words |-> <<>>]}
    \cup {[isNull |-> FALSE, words |-> w] :
            w \in {WordsHello, WordsNumberText, WordsNullEntry, WordsSameStart}}

\* a bug the sort could have: the list left in the backend's order
Unsorted(words) == words

\* [...words].sort((a, b) => a.start - b.start) for words that all have a
\* start: the sort is stable, so a word goes after the words that start no
\* later
RECURSIVE SortByStartTime(_)
SortByStartTime(words) ==
  IF words = <<>> THEN <<>>
  ELSE LET last == words[Len(words)]
           sorted == SortByStartTime(SubSeq(words, 1, Len(words) - 1))
           before == SelectSeq(sorted, LAMBDA w : w.start[1] <= last.start[1])
           after == SelectSeq(sorted, LAMBDA w : w.start[1] > last.start[1])
       IN before \o <<last>> \o after

\* the word the sort effect of Index makes of a word: text || '', start, end,
\* confidence || 1 (100 percent); the speaker is not modelled
ProcessWord(word) ==
  [text |-> word.text, start |-> word.start, end |-> word.end,
   confidence |-> IF word.confidence = 0 THEN 100 ELSE word.confidence]

\* processedWords of the sort effect of Index
ProcessedWords(words) ==
  LET sortedWords == SortByStartTime(words)
  IN [k \in 1..Len(sortedWords) |-> ProcessWord(sortedWords[k])]

\* the word lists of a backend result
RawLists == {WordsHello, WordsThree, WordsUnsorted}

Ids ==
  {Fingerprint(w) : w \in WordLists \cup {WordsNumberText, WordsSameStart}
                              \cup {ProcessedWords(raw) : raw \in RawLists}}

(***************************************************************************)
(* The Transcript component                                                *)
(***************************************************************************)
VARIABLES
  transcription,       \* the transcription prop
  currentTime,         \* the currentTime prop, in milliseconds
  formattedSegments,   \* useState<TranscriptSegment[]>([])
  isLoading,           \* useState(true)
  error,               \* useState<string | null>(null): "null" or the message
  activeSegmentIndex,  \* useState<number>(-1)
  lastProcessedId,     \* useRef<string>('')
  lastActiveIndex,     \* useRef<number>(-1)
  pending,             \* the processTranscript calls awaiting formatTranscript,
                       \* in call order: [id, segments, request]
  lastOp,              \* what ran last: "mount", "clear", "skip", "start",
                       \* "resume", "time" or "click", and "throw" after
                       \* an uncaught error
  computed,            \* the activeIndex the active-segment effect computed in
                       \* the last step: <<i>>, or <<>> when it computed none
  didSet,              \* whether the last step called setActiveSegmentIndex
  readList,            \* the list the active-segment effect read when it last ran
  formatCount,         \* per id, the number of formatTranscript invocations
  delivered,           \* the word lists handed to processTranscript so far
  nDeliveries,         \* the number of changes of the transcription prop
  inFlightAtDelivery,  \* whether the latest change of the transcription prop
                       \* delivered a non-empty word list while a call was
                       \* pending
  fn,                  \* the helper called last outside the component, "none"
                       \* when there was no call; "words" and "chars" while
                       \* an argument is being put together
  arg,                 \* its argument
  ret,                 \* what it returned
  sortRuns,            \* Index: the number of runs of the sort effect
  stale,               \* Index: transcriptionData has been set to a new object
                       \* that Transcript has not rendered (React.memo held
                       \* the re-render back)
  clicked,             \* Index: the segment whose timestamp was clicked last
                       \* (1-based), 0 before any click
  seekTo,              \* Index: the time onSeek was called with last
  attempts,            \* transcribeAudio: let attempts = 0
  resultStatus,        \* transcribeAudio: result.status of the last response
                       \* read, "none" before the first
  thrown,              \* transcribeAudio: the error it threw: "none", "status"
                       \* (status request failed), "failed" (status error)
                       \* or "timeout"
  returned,            \* transcribeAudio: whether it returned the transcription
  isSeeking,           \* MediaPlayer: useState(false)
  isPlaying,           \* MediaPlayer: useState(autoPlay), autoPlay = false
  videoTime,           \* MediaPlayer: videoRef.current.currentTime, in seconds
  dragging,            \* MediaPlayer: the slider has changed its value and
                       \* has not committed yet
  timers,              \* MediaPlayer: the number of pending timers
                       \* setTimeout(() => setIsSeeking(false), 100)
  propagated,          \* MediaPlayer: whether the last step called onTimeUpdate
  selectedFile,        \* Index: the selection whose file is selected, 0 for null
  isProcessing,        \* Index: useState(false)
  pageError,           \* Index: the error state, "" or "failed"
  transcriptionData,   \* Index: the selection whose transcription is stored,
                       \* 0 for null
  summary,             \* Index: the selection whose summary is stored, 0 for
                       \* null
  calls,               \* Index: the handleFileSelected calls at an await, in
                       \* call order: [selection, awaiting]
  nSelections          \* Index: the number of files selected so far

\* the state of the Transcript component
componentVars == <<transcription, currentTime, formattedSegments, isLoading, error,
                   activeSegmentIndex, lastProcessedId, lastActiveIndex, pending,
                   lastOp, computed, didSet, readList, formatCount, delivered,
                   nDeliveries, inFlightAtDelivery>>

\* a call of a helper of transcriptUtils.ts on its own
callVars == <<fn, arg, ret>>

\* the state of the Index page around the component
indexVars == <<sortRuns, stale, clicked, seekTo>>

\* the polling loop of AIService.transcribeAudio
pollVars == <<attempts, resultStatus, thrown, returned>>

\* the MediaPlayer component
playerVars == <<isSeeking, isPlaying, videoTime, dragging, timers, propagated>>

\* the file selection of the Index page
uploadVars == <<selectedFile, isProcessing, pageError, transcriptionData, summary,
                calls, nSelections>>

\* the state outside the Transcript component, its helpers and the hand-off
sideVars == <<pollVars, playerVars, uploadVars>>

vars == <<componentVars, callVars, indexVars, sideVars>>

\* The component after its mount with transcription = null and currentTime = 0:
\* the words effect has taken its else branch and the active-segment effect has
\* returned on the empty list.
Init ==
  /\ transcription = [isNull |-> TRUE, words |-> <<>>]
  /\ currentTime = 0
  /\ formattedSegments = <<>>
  /\ isLoading = FALSE
  /\ error = "null"
  /\ activeSegmentIndex = -1
  /\ lastProcessedId = NoId
  /\ lastActiveIndex = -1
  /\ pending = <<>>
  /\ lastOp = "mount"
  /\ computed = <<>>
  /\ didSet = FALSE
  /\ readList = <<>>
  /\ formatCount = [id \in Ids |-> 0]
  /\ delivered = {}
  /\ nDeliveries = 0
  /\ inFlightAtDelivery = FALSE
  /\ fn = "none"
  /\ arg = <<>>
  /\ ret = <<>>
  /\ sortRuns = 0
  /\ stale = FALSE
  /\ clicked = 0
  /\ seekTo = <<>>
  /\ attempts = 0
  /\ resultStatus = "none"
  /\ thrown = "none"
  /\ returned = FALSE
  /\ isSeeking = FALSE
  /\ isPlaying = FALSE
  /\ videoTime = 0
  /\ dragging = FALSE
  /\ timers = 0
  /\ propagated = FALSE
  /\ selectedFile = 0
  /\ isProcessing = FALSE
  /\ pageError = ""
  /\ transcriptionData = 0
  /\ summary = 0
  /\ calls = <<>>
  /\ nSelections = 0

\* The re-render after a change of currentTime or of formattedSegments runs the
\* active-segment effect on the list segs at the time t.
RunActiveEffect(segs, t) ==
  \E r \in {ActiveEffect(segs, t, lastActiveIndex)} :
     /\ activeSegmentIndex' = IF r.set THEN r.index ELSE activeSegmentIndex
     /\ lastActiveIndex' = IF r.set THEN r.index ELSE lastActiveIndex
     /\ computed' = r.computed
     /\ didSet' = r.set
     /\ readList' = segs

\* setFormattedSegments([]); setIsLoading(false): the two places that clear the
\* list (processTranscript on no words, the words effect on no transcription).
\* The new array re-renders and the active-segment effect returns on its
\* length test.
ClearSegments ==
  /\ formattedSegments' = <<>>
  /\ isLoading' = FALSE
  /\ RunActiveEffect(<<>>, currentTime)
  /\ lastOp' = "clear"
  /\ inFlightAtDelivery' = FALSE
  /\ UNCHANGED <<error, lastProcessedId, pending, formatCount, delivered>>

\* processTranscript(words) up to its await: the guard, then the call of
\* formatTranscript. formatTranscript has no await of its own: its promise is
\* resolved when it returns, so the continuations run in call order.
processTranscript(words) ==
  IF words = <<>>
  THEN ClearSegments
  ELSE LET currentId == Fingerprint(words)
       IN /\ delivered' = delivered \cup {words}
          /\ inFlightAtDelivery' = (pending # <<>>)
          /\ IF ShouldSkip(currentId, lastProcessedId)
             THEN /\ lastOp' = "skip"
                  /\ UNCHANGED <<formattedSegments, isLoading, error, lastProcessedId,
                                 pending, formatCount, activeSegmentIndex,
                                 lastActiveIndex, readList>>
                  /\ computed' = <<>>
                  /\ didSet' = FALSE
             ELSE /\ isLoading' = TRUE
                  /\ error' = "null"
                  /\ pending' = Append(pending, [id |-> currentId,
                                                 segments |-> formatTranscript(words),
                                                 request |-> nDeliveries + 1])
                  /\ formatCount' = [formatCount EXCEPT ![currentId] = @ + 1]
                  /\ lastOp' = "start"
                  /\ UNCHANGED <<formattedSegments, lastProcessedId, activeSegmentIndex,
                                 lastActiveIndex, readList>>
                  /\ computed' = <<>>
                  /\ didSet' = FALSE

\* The render throws while it computes transcriptionId. No error boundary is
\* above the component: the error is uncaught and React unmounts the tree, so
\* no effect of this render runs.
RenderThrows ==
  /\ lastOp' = "throw"
  /\ computed' = <<>>
  /\ didSet' = FALSE
  /\ UNCHANGED <<formattedSegments, isLoading, error, activeSegmentIndex,
                 lastProcessedId, lastActiveIndex, pending, readList, formatCount,
                 delivered, inFlightAtDelivery>>

\* an uncaught error has unmounted the component
Unmounted == lastOp = "throw"

\* The render of Transcript with the new transcription prop tr: it computes
\* transcriptionId, then the words effect runs.
RenderWords(tr) ==
  /\ ~Unmounted
  /\ nDeliveries < MaxDeliveries
  /\ nDeliveries' = nDeliveries + 1
  /\ transcription' = tr
  /\ UNCHANGED currentTime
  /\ IF ~tr.isNull /\ FingerprintThrows(tr.words)
     THEN RenderThrows
     ELSE IF ~tr.isNull
     THEN processTranscript(tr.words)
     ELSE ClearSegments

\* The transcription prop changes to tr
WordsChanged(tr) ==
  /\ RenderWords(tr)
  /\ UNCHANGED <<callVars, indexVars, sideVars>>

\* The oldest pending call resumes after its await: the commit, the finally
\* block, and the active-segment effect of the re-render on the new list.
Resume ==
  /\ ~Unmounted
  /\ pending # <<>>
  /\ LET call == Head(pending)
         segments == CommitSegments(formattedSegments, call.segments)
     IN /\ formattedSegments' = segments
        /\ lastProcessedId' = call.id
        /\ isLoading' = FALSE
        /\ pending' = Tail(pending)
        /\ RunActiveEffect(segments, currentTime)
  /\ lastOp' = "resume"
  /\ UNCHANGED <<transcription, currentTime, error, formatCount, delivered,
                 nDeliveries, inFlightAtDelivery, callVars, indexVars, sideVars>>

\* a bug the words effect could have: currentTime among its dependencies, so
\* that a time update runs processTranscript on the current words again
TimeChangedReprocess ==
  /\ error' = error
  /\ lastProcessedId' = lastProcessedId
  /\ delivered' = delivered
  /\ inFlightAtDelivery' = inFlightAtDelivery
  /\ IF transcription.isNull \/ transcription.words = <<>>
     THEN /\ formattedSegments' = <<>>
          /\ isLoading' = FALSE
          /\ UNCHANGED <<pending, formatCount>>
     ELSE IF Fingerprint(transcription.words) = lastProcessedId
     THEN UNCHANGED <<formattedSegments, isLoading, pending, formatCount>>
     ELSE /\ formattedSegments' = formattedSegments
          /\ isLoading' = TRUE
          /\ pending' = Append(pending, [id |-> Fingerprint(transcription.words),
                                         segments |-> formatTranscript(transcription.words),
                                         request |-> nDeliveries])
          /\ formatCount' = [formatCount EXCEPT ![Fingerprint(transcription.words)] = @ + 1]

\* What a change of currentTime alone re-runs besides the active-segment
\* effect: nothing. The words effect depends on [transcription,
\* processTranscript] only.
TimeChangedOnly ==
  UNCHANGED <<formattedSegments, isLoading, error, lastProcessedId, pending,
              formatCount, delivered, inFlightAtDelivery>>

\* The currentTime prop changes to t: the active-segment effect runs on the
\* committed list.
TimeChanged(t) ==
  /\ ~Unmounted
  /\ t # currentTime
  /\ currentTime' = t
  /\ RunActiveEffect(formattedSegments, t)
  /\ lastOp' = "time"
  /\ TimeChangedOnly
  /\ UNCHANGED <<transcription, nDeliveries, callVars, indexVars, sideVars>>

Next ==
  \/ \E tr \in Transcriptions : WordsChanged(tr)
  \/ Resume
  \/ \E t \in Times : TimeChanged(t)

Spec == Init /\ [][Next]_vars

\* The Transcript component when the tokens may be malformed
NextAny ==
  \/ \E tr \in TranscriptionsAny : WordsChanged(tr)
  \/ Resume
  \/ \E t \in Times : TimeChanged(t)

SpecAny == Init /\ [][NextAny]_vars

(***************************************************************************)
(* The Index page: the hand-off of a backend result to Transcript          *)
(***************************************************************************)
\* the number of runs of the sort effect followed
MaxSortRuns == 3

\* handleFileSelected after transcribeAudio has resolved:
\* setTranscriptionData(result), and the render passes the result to
\* Transcript as it came
IndexSetResult(raw) ==
  /\ transcription.isNull
  /\ RenderWords([isNull |-> FALSE, words |-> raw])
  /\ stale' = FALSE
  /\ UNCHANGED <<sortRuns, clicked, seekTo, callVars, sideVars>>

\* The effect of Index on [transcriptionData]: it sorts the words and sets
\* the state to a new object, whatever the words were. It runs after every
\* change of transcriptionData, its own included. The comparator of
\* React.memo(Transcript) holds the re-render back when the new object has
\* the JSON text of the one rendered last; otherwise Transcript renders with
\* the new object.
IndexSortEffect ==
  /\ ~transcription.isNull
  /\ sortRuns < MaxSortRuns
  /\ sortRuns' = sortRuns + 1
  /\ UNCHANGED <<clicked, seekTo, callVars, sideVars>>
  /\ IF ProcessedWords(transcription.words) = transcription.words
     THEN /\ stale' = TRUE
          /\ UNCHANGED componentVars
     ELSE /\ stale' = FALSE
          /\ RenderWords([isNull |-> FALSE,
                          words |-> ProcessedWords(transcription.words)])

\* The words effect in a render that a change of currentTime let through
\* while the transcription object was stale: the object is a new one, so the
\* effect runs processTranscript on its words (the words of a stale object
\* are those rendered last, and not empty here).
StaleWordsEffect ==
  LET words == transcription.words
      currentId == Fingerprint(words)
  IN /\ nDeliveries < MaxDeliveries
     /\ nDeliveries' = nDeliveries + 1
     /\ delivered' = delivered \cup {words}
     /\ inFlightAtDelivery' = (pending # <<>>)
     /\ UNCHANGED <<formattedSegments, lastProcessedId>>
     /\ IF ShouldSkip(currentId, lastProcessedId)
        THEN UNCHANGED <<isLoading, error, pending, formatCount>>
        ELSE /\ isLoading' = TRUE
             /\ error' = "null"
             /\ pending' = Append(pending, [id |-> currentId,
                                            segments |-> formatTranscript(words),
                                            request |-> nDeliveries + 1])
             /\ formatCount' = [formatCount EXCEPT ![currentId] = @ + 1]

\* setCurrentTime(t) in Index, t not the current value: Transcript renders
\* with the new time, and with the new transcription object when it was
\* stale; the words effect (if the object is new) and the active-segment
\* effect run, in this order.
IndexRender(t, op) ==
  /\ ~Unmounted
  /\ t # currentTime
  /\ currentTime' = t
  /\ RunActiveEffect(formattedSegments, t)
  /\ lastOp' = op
  /\ stale' = FALSE
  /\ transcription' = transcription
  /\ IF stale
     THEN StaleWordsEffect
     ELSE TimeChangedOnly /\ UNCHANGED nDeliveries

\* handleMediaTimeUpdate(time) past its throttle: setCurrentTime(time)
IndexTimeUpdate(t) ==
  /\ IndexRender(t, "time")
  /\ UNCHANGED <<sortRuns, clicked, seekTo, callVars, sideVars>>

\* A click on the timestamp of segment i of the rendered list:
\* handleTimestampClick(segment.startTime) of Transcript calls
\* onSeek(timeToSeconds(timeStr)), which is handleTimestampClick of Index:
\* seekTo(time) on the player and setCurrentTime(time). Setting the value
\* currentTime has already renders nothing. A startTime is a clock of
\* formatTime, so timeToSeconds does not return NaN for it.
IndexTimestampClick(i) ==
  /\ ~Unmounted
  /\ error = "null"
  /\ i \in 1..Len(formattedSegments)
  /\ \E time \in {timeToSeconds(formattedSegments[i].startTime)} :
       /\ time # <<>>
       /\ clicked' = i
       /\ seekTo' = time
       /\ IF time[1] * 1000 = currentTime
          THEN /\ lastOp' = "click"
               /\ computed' = <<>>
               /\ didSet' = FALSE
               /\ UNCHANGED <<transcription, currentTime, formattedSegments, isLoading,
                              error, activeSegmentIndex, lastProcessedId,
                              lastActiveIndex, pending, readList, formatCount,
                              delivered, nDeliveries, inFlightAtDelivery, stale>>
          ELSE IndexRender(time[1] * 1000, "click")
  /\ UNCHANGED <<sortRuns, callVars, sideVars>>

IndexNext ==
  \/ \E raw \in RawLists : IndexSetResult(raw)
  \/ IndexSortEffect
  \/ Resume
  \/ \E t \in Times : IndexTimeUpdate(t)
  \/ \E i \in 1..Len(formattedSegments) : IndexTimestampClick(i)

SpecIndex == Init /\ [][IndexNext]_vars

(***************************************************************************)
(* AIService.transcribeAudio: the polling loop                             *)
(***************************************************************************)
maxAttempts == 30

\* what a status request gives: a response that is not ok, or a response
\* with one of the statuses of the backend
Responses == {"notOk", "queued", "processing", "completed", "error"}

\* a bug the loop could have: no bound on the attempts
LoopForever(n) == TRUE

\* while (attempts < maxAttempts)
LoopContinues(n) == n < maxAttempts

\* transcribeAudio has thrown or returned
PollEnded == thrown # "none" \/ returned

\* the code after the loop: if (attempts >= maxAttempts) throw 'Transcription
\* timed out', else the words are processed and the transcription returned
AfterLoop(n) ==
  IF n >= maxAttempts
  THEN thrown' = "timeout" /\ returned' = FALSE
  ELSE thrown' = "none" /\ returned' = TRUE

\* One iteration of the loop, entered on its test: attempts++, the status
\* request, and what follows the response. A response that is not ok and a
\* status error throw; completed breaks out of the loop; any other status
\* waits 3 s and comes back to the test of the loop, after which the code
\* after the loop runs when the test fails.
Poll(response) ==
  /\ ~PollEnded
  /\ LoopContinues(attempts)
  /\ attempts' = attempts + 1
  /\ IF response = "notOk"
     THEN thrown' = "status" /\ UNCHANGED <<resultStatus, returned>>
     ELSE /\ resultStatus' = response
          /\ IF response = "completed" THEN AfterLoop(attempts')
             ELSE IF response = "error" THEN thrown' = "failed" /\ UNCHANGED returned
             ELSE IF LoopContinues(attempts') THEN UNCHANGED <<thrown, returned>>
             ELSE AfterLoop(attempts')
  /\ UNCHANGED <<componentVars, callVars, indexVars, playerVars, uploadVars>>

PollNext == \E response \in Responses : Poll(response)

Polls == Init /\ [][PollNext]_vars

(***************************************************************************)
(* The MediaPlayer component: seeking with the slider                      *)
(***************************************************************************)
\* the most reset timers pending at a time
MaxTimers == 2

\* the times of the video element and the values of the slider, in seconds
VideoTimes == 0..3

\* a step of the MediaPlayer leaves the rest alone
PlayerOnly == UNCHANGED <<componentVars, callVars, indexVars, pollVars, uploadVars>>

\* togglePlay
TogglePlay ==
  /\ isPlaying' = ~isPlaying
  /\ propagated' = FALSE
  /\ UNCHANGED <<isSeeking, videoTime, dragging, timers>>
  /\ PlayerOnly

\* handleTimeUpdate on a timeupdate event of the video element at the time
\* t (the time moves on only while the video plays): onTimeUpdate is called
\* when isSeeking is false and more than 100 ms have passed since the last
\* call (throttleOpen)
VideoTimeUpdate(t, throttleOpen) ==
  /\ t = videoTime \/ isPlaying
  /\ videoTime' = t
  /\ propagated' = (~isSeeking /\ throttleOpen)
  /\ UNCHANGED <<isSeeking, isPlaying, dragging, timers>>
  /\ PlayerOnly

\* the callback of the 100 ms interval, which runs while isPlaying:
\* onTimeUpdate is called when isSeeking is false
IntervalTick ==
  /\ isPlaying
  /\ propagated' = ~isSeeking
  /\ UNCHANGED <<isSeeking, isPlaying, videoTime, dragging, timers>>
  /\ PlayerOnly

\* handleSliderValueChange, during a drag: setIsSeeking(true)
SliderValueChange ==
  /\ isSeeking' = TRUE
  /\ dragging' = TRUE
  /\ propagated' = FALSE
  /\ UNCHANGED <<isPlaying, videoTime, timers>>
  /\ PlayerOnly

\* handleSliderCommit(value) at the end of a drag: handleSeek sets the time
\* of the video and calls onSeek, and a timer is set that will call
\* setIsSeeking(false) after 100 ms; no timer set earlier is cleared
SliderCommit(value) ==
  /\ dragging
  /\ timers < MaxTimers
  /\ videoTime' = value
  /\ timers' = timers + 1
  /\ dragging' = FALSE
  /\ propagated' = FALSE
  /\ UNCHANGED <<isSeeking, isPlaying>>
  /\ PlayerOnly

\* a timer of handleSliderCommit fires: setIsSeeking(false)
ResetTimerFires ==
  /\ timers > 0
  /\ timers' = timers - 1
  /\ isSeeking' = FALSE
  /\ propagated' = FALSE
  /\ UNCHANGED <<isPlaying, videoTime, dragging>>
  /\ PlayerOnly

PlayerNext ==
  \/ TogglePlay
  \/ \E t \in VideoTimes, throttleOpen \in BOOLEAN : VideoTimeUpdate(t, throttleOpen)
  \/ IntervalTick
  \/ SliderValueChange
  \/ \E value \in VideoTimes : SliderCommit(value)
  \/ ResetTimerFires

Player == Init /\ [][PlayerNext]_vars

(***************************************************************************)
(* The Index page: selecting a file                                        *)
(***************************************************************************)
\* the number of files selected in a run
MaxSelections == 3

\* a step of the file selection leaves the rest alone
UploadOnly == UNCHANGED <<componentVars, callVars, indexVars, pollVars, playerVars>>

\* the sequence without its k-th entry
RemoveAt(seq, k) == SubSeq(seq, 1, k - 1) \o SubSeq(seq, k + 1, Len(seq))

\* handleFileSelected(file) up to its first await, called by the FileUploader,
\* which Index renders while selectedFile is null (its Browse Files button
\* does not depend on isProcessing): setSelectedFile(file),
\* setIsProcessing(true), setError(''), and the call of transcribeAudio
FileSelected ==
  /\ selectedFile = 0
  /\ nSelections < MaxSelections
  /\ nSelections' = nSelections + 1
  /\ selectedFile' = nSelections + 1
  /\ isProcessing' = TRUE
  /\ pageError' = ""
  /\ calls' = Append(calls, [selection |-> nSelections + 1, awaiting |-> "transcribeAudio"])
  /\ UNCHANGED <<transcriptionData, summary>>
  /\ UploadOnly

\* transcribeAudio resolves for the k-th call: setTranscriptionData(result),
\* then the call of generateSummary
TranscriptionResolves(k) ==
  /\ k \in 1..Len(calls)
  /\ calls[k].awaiting = "transcribeAudio"
  /\ transcriptionData' = calls[k].selection
  /\ calls' = [calls EXCEPT ![k].awaiting = "generateSummary"]
  /\ UNCHANGED <<selectedFile, isProcessing, pageError, summary, nSelections>>
  /\ UploadOnly

\* generateSummary resolves for the k-th call: setSummary(summaryResult),
\* and the finally block: setIsProcessing(false)
SummaryResolves(k) ==
  /\ k \in 1..Len(calls)
  /\ calls[k].awaiting = "generateSummary"
  /\ summary' = calls[k].selection
  /\ isProcessing' = FALSE
  /\ calls' = RemoveAt(calls, k)
  /\ UNCHANGED <<selectedFile, pageError, transcriptionData, nSelections>>
  /\ UploadOnly

\* the promise the k-th call awaits rejects: the catch block sets the
\* error, and the finally block: setIsProcessing(false)
CallRejects(k) ==
  /\ k \in 1..Len(calls)
  /\ pageError' = "failed"
  /\ isProcessing' = FALSE
  /\ calls' = RemoveAt(calls, k)
  /\ UNCHANGED <<selectedFile, transcriptionData, summary, nSelections>>
  /\ UploadOnly

\* the button Upload New File, rendered while a file is selected:
\* setSelectedFile(null), setTranscriptionData(null), setSummary(null); the
\* calls at an await are left as they are, and so is isProcessing
UploadNewFile ==
  /\ selectedFile # 0
  /\ selectedFile' = 0
  /\ transcriptionData' = 0
  /\ summary' = 0
  /\ UNCHANGED <<isProcessing, pageError, calls, nSelections>>
  /\ UploadOnly

UploadNext ==
  \/ FileSelected
  \/ \E k \in 1..Len(calls) : TranscriptionResolves(k)
  \/ \E k \in 1..Len(calls) : SummaryResolves(k)
  \/ \E k \in 1..Len(calls) : CallRejects(k)
  \/ UploadNewFile

Uploads == Init /\ [][UploadNext]_vars

(***************************************************************************)
(* The helpers called on their own                                         *)
(***************************************************************************)
\* the longest word list put together
MaxTokens == 3

\* the longest string put together (the weights 60^k of timeToSeconds stay
\* within the integers of the checker up to six fields)
MaxChars == 4

\* the entries a word list is put together from: the word a at each start
\* (undefined, 0 s, 1 s, 3.5 s, 4 s, 1 h 1 min 40 s) and a blank token at some
\* of them, ending half a second later; the word b. at 1 s and at 4 s; the
\* word a starting and ending at 0; the entry null; and a token whose text
\* is the number 5. After a token at 1 s the token at 3.5 s starts exactly
\* 2.0 s after its end, and the token at 4 s 2.5 s after it.
TokenStarts == {<<>>, <<0>>, <<1000>>, <<3500>>, <<4000>>, <<3700000>>}

BlankStarts == {<<>>, <<0>>, <<4000>>}

Token(text, start) ==
  [text |-> text, start |-> start,
   end |-> IF start = <<>> THEN <<>> ELSE <<start[1] + 500>>, confidence |-> 100]

Tokens ==
  {Token(<<"a">>, start) : start \in TokenStarts}
    \cup {Token(<<" ">>, start) : start \in BlankStarts}
    \cup {Token(<<"b", ".">>, <<1000>>), Token(<<"b", ".">>, <<4000>>),
          Word(<<"a">>, 0, 0, 100),
          NullEntry, NumberTextWord(<<"5">>, 1000, 1500, 100)}

\* the characters a string is put together from
Chars == {"0", "1", "7", ":", "a"}

\* the longest text put together
MaxText == 5

\* the characters a text is put together from: a letter, a space and two of
\* the marks . , ! ?
TextChars == {"a", " ", ".", ","}

\* the text of the normalisation example
HelloNextText ==
  <<"H", "e", "l", "l", "o", " ", ",", " ", " ", "w", "o", "r", "l", "d", " ",
    ".", " ", " ", "N", "e", "x", "t">>

\* the numbers passed for a time: NaN, a negative one, and times below and
\* above one hour, in milliseconds
Seconds ==
  {<<>>, <<-1500>>, <<0>>, <<999>>, <<1000>>, <<59999>>, <<60000>>, <<61500>>,
   <<75000>>, <<3599999>>, <<3600000>>, <<3661000>>, <<86399999>>, <<360000000>>}

\* a call returns: the call variables hold it, the component is not touched
Returns(name, argument, result) ==
  /\ fn' = name
  /\ arg' = argument
  /\ ret' = result
  /\ UNCHANGED <<componentVars, indexVars, sideVars>>

\* one more entry for the word list
AppendToken(token) ==
  /\ fn \in {"none", "words"}
  /\ Len(arg) < MaxTokens
  /\ Returns("words", Append(arg, token), <<>>)

\* formatTranscript(words) for the list put together, the empty one included
FormatBuilt ==
  /\ fn \in {"none", "words"}
  /\ Returns("formatTranscript", arg, formatTranscript(arg))

\* formatTranscript() and formatTranscript(null): undefined takes the default
\* [], and null returns at the first test, as the empty list does
FormatMissing ==
  /\ fn = "none"
  /\ Returns("formatMissing", <<>>, formatTranscript(<<>>))

\* formatTranscript(words) for a word list of the component's inputs
FormatList(words) ==
  /\ fn = "none"
  /\ Returns("formatTranscript", words, formatTranscript(words))

\* one more character for the string
AppendChar(c) ==
  /\ fn \in {"none", "chars"}
  /\ Len(arg) < MaxChars
  /\ Returns("chars", Append(arg, c), <<>>)

\* timeToSeconds(timeStr) for the string put together
ParseClock ==
  /\ fn \in {"none", "chars"}
  /\ Returns("timeToSeconds", arg, timeToSeconds(arg))

\* convertToHHMMSS(timeStr) for the string put together
ConvertString ==
  /\ fn \in {"none", "chars"}
  /\ Returns("convertString", arg, convertToHHMMSS(StringArg(arg)))

\* convertToHHMMSS(timeStr) for a number
ConvertNumber(seconds) ==
  /\ fn = "none"
  /\ Returns("convertNumber", seconds, convertToHHMMSS(NumberArg(seconds)))

\* convertToHHMMSS(undefined)
ConvertUndefined ==
  /\ fn = "none"
  /\ Returns("convertUndefined", <<>>, convertToHHMMSS(UndefinedArg))

\* formatTime(seconds)
FormatSeconds(seconds) ==
  /\ fn = "none"
  /\ Returns("formatTime", seconds, formatTime(seconds))

\* timeToSeconds of the clock string formatTime returned
ParseFormatted ==
  /\ fn = "formatTime"
  /\ Returns("roundTrip", arg, timeToSeconds(ret))

\* timeToSeconds of what convertToHHMMSS makes of the clock string
\* formatTime returned, as TranscriptSegmentItem displays a startTime
DisplayFormatted ==
  /\ fn = "formatTime"
  /\ Returns("displayTrip", arg, timeToSeconds(convertToHHMMSS(StringArg(ret))))

\* convertToHHMMSS of the string convertToHHMMSS returned
ConvertAgain ==
  /\ fn \in {"convertString", "convertNumber", "convertUndefined"}
  /\ Returns("convertTwice", ret, convertToHHMMSS(StringArg(ret)))

\* one more character for the text
AppendText(c) ==
  /\ fn \in {"none", "text"}
  /\ Len(arg) < MaxText
  /\ Returns("text", Append(arg, c), <<>>)

\* cleanText(text) for the text put together
CleanBuilt ==
  /\ fn \in {"none", "text"}
  /\ Returns("cleanText", arg, cleanText(arg))

\* cleanText(text) for the text of the example
CleanExample ==
  /\ fn = "none"
  /\ Returns("cleanText", HelloNextText, cleanText(HelloNextText))

\* cleanText of the text cleanText returned
CleanAgain ==
  /\ fn = "cleanText"
  /\ Returns("cleanTwice", arg, cleanText(ret))

CallsNext ==
  \/ \E token \in Tokens : AppendToken(token)
  \/ FormatBuilt
  \/ FormatMissing
  \/ \E words \in WordLists : FormatList(words)
  \/ \E c \in Chars : AppendChar(c)
  \/ ParseClock
  \/ ConvertString
  \/ \E seconds \in Seconds : ConvertNumber(seconds)
  \/ ConvertUndefined
  \/ \E seconds \in Seconds : FormatSeconds(seconds)
  \/ ParseFormatted
  \/ DisplayFormatted
  \/ ConvertAgain
  \/ \E c \in TextChars : AppendText(c)
  \/ CleanBuilt
  \/ CleanExample
  \/ CleanAgain

Calls == Init /\ [][CallsNext]_vars

(***************************************************************************)
(* Properties                                                              *)
(***************************************************************************)
\* this step is a change of the transcription prop to a non-empty word list
DeliversWords ==
  /\ nDeliveries' # nDeliveries
  /\ ~transcription'.isNull
  /\ transcription'.words # <<>>

\* the current transcription holds a non-empty word list
HoldsWords == ~transcription.isNull /\ transcription.words # <<>>

\* C1: once processTranscript has completed for a word list (its id is
\* lastProcessedId), a delivery of a list with the same (start, end, text)
\* triples, also in another array, invokes formatTranscript no more and leaves
\* the segment list and lastProcessedId as they are.
C1_ReprocessGuardIdempotent ==
  [][(DeliversWords /\ Fingerprint(transcription'.words) = lastProcessedId)
       => /\ formatCount' = formatCount
          /\ pending' = pending
          /\ formattedSegments' = formattedSegments
          /\ lastProcessedId' = lastProcessedId]_vars

\* WordsHello was formatted once and committed, and the delivery of its copy
\* in another array was skipped
C1_Witness ==
  /\ lastOp = "skip"
  /\ transcription.words = WordsHelloAgain
  /\ WordsHello \in delivered
  /\ formatCount[Fingerprint(WordsHello)] = 1
  /\ formattedSegments = formatTranscript(WordsHello)
  /\ formattedSegments # <<>>

C3_CacheCoherence ==
  (pending = <<>> /\ HoldsWords)
    => formattedSegments = formatTranscript(transcription.words)

\* the start of segment k in milliseconds (the segments of the model have
\* numeric clock fields)
StartMs(segs, k) == timeToSeconds(segs[k].startTime)[1] * 1000

\* segment k (1-based) covers t: start_k <= t < start_(k+1), the successor of
\* the last segment starting at +infinity
Covers(segs, k, t) ==
  /\ StartMs(segs, k) <= t
  /\ k < Len(segs) => t < StartMs(segs, k + 1)

\* the 0-based index of the first segment covering t, -1 when there is none
FirstCovering(segs, t) ==
  IF \E k \in 1..Len(segs) : Covers(segs, k, t)
  THEN (CHOOSE k \in 1..Len(segs) :
          Covers(segs, k, t) /\ \A j \in 1..(k - 1) : ~Covers(segs, j, t)) - 1
  ELSE -1

StartsMs(segs) == [k \in 1..Len(segs) |-> StartMs(segs, k)]

\* C4: for a non-empty segment list and the playback time t the active index
\* is the first i with start_i <= t < start_(i+1), and -1 when there is none;
\* with the starts 0, 10, 20 it is 0 at 9.999, 1 at 10.0, 2 at 25 and -1 at -1.
C4_ActiveSegmentSearch ==
  formattedSegments # <<>>
    => /\ activeSegmentIndex = FirstCovering(formattedSegments, currentTime)
       /\ StartsMs(formattedSegments) = <<0, 10000, 20000>>
            => /\ currentTime = 9999 => activeSegmentIndex = 0
               /\ currentTime = 10000 => activeSegmentIndex = 1
               /\ currentTime = 25000 => activeSegmentIndex = 2
               /\ currentTime = -1000 => activeSegmentIndex = -1

\* the starts 0, 10, 20 at 9.999 s, after a time update
C4_Witness ==
  /\ lastOp = "time"
  /\ StartsMs(formattedSegments) = <<0, 10000, 20000>>
  /\ currentTime = 9999
  /\ computed = <<0>>

\* C5: setActiveSegmentIndex is called only when the computed index differs
\* from lastActiveIndex, a computation of the recorded index changes nothing,
\* and lastActiveIndex always equals activeSegmentIndex.
C5_RedundantUpdateGuard ==
  /\ [](lastActiveIndex = activeSegmentIndex)
  /\ [][/\ didSet' => (computed' # <<>> /\ computed' # <<lastActiveIndex>>)
        /\ computed' = <<lastActiveIndex>>
             => (~didSet' /\ activeSegmentIndex' = activeSegmentIndex)
        /\ activeSegmentIndex' # activeSegmentIndex => didSet']_vars

\* a time update computed the index already recorded, and set nothing
C5_Witness ==
  /\ lastOp = "time"
  /\ computed = <<activeSegmentIndex>>
  /\ activeSegmentIndex >= 0
  /\ ~didSet

\* the start times of the list are non-decreasing
SortedStarts(segs) ==
  \A k \in 1..(Len(segs) - 1) : StartMs(segs, k) <= StartMs(segs, k + 1)

\* C6: for a fixed segment list with non-decreasing start times, a time update
\* to a time not below the current one computes an index not below the one
\* computed before (-1 being the lowest).
C6_ActiveIndexMonotone ==
  [][(/\ formattedSegments' = formattedSegments
      /\ formattedSegments # <<>>
      /\ SortedStarts(formattedSegments)
      /\ currentTime' >= currentTime
      /\ computed' # <<>>)
       => computed'[1] >= lastActiveIndex]_vars

\* a time update moved the active index up, from -1, in a sorted list
C6_Witness ==
  /\ lastOp = "time"
  /\ formattedSegments # <<>>
  /\ SortedStarts(formattedSegments)
  /\ didSet
  /\ computed = <<2>>
  /\ currentTime = 25000

\* C7: activeSegmentIndex is -1 or an index into the current segment list, so
\* -1 when the list is empty.
C7_ActiveIndexInRange ==
  \/ activeSegmentIndex = -1
  \/ (0 <= activeSegmentIndex /\ activeSegmentIndex < Len(formattedSegments))

\* this step resumes a call that a later delivery of another word list has
\* superseded
ResumesSuperseded ==
  /\ pending # <<>>
  /\ pending' = Tail(pending)
  /\ Head(pending).request < nDeliveries
  /\ HoldsWords
  /\ Fingerprint(transcription.words) # Head(pending).id

\* C8: the result of a call superseded while in flight is not committed, and
\* once the calls have finished the segment list and lastProcessedId are those
\* of the word list delivered last.
C8_StaleResultDiscarded ==
  /\ [][ResumesSuperseded => formattedSegments' = formattedSegments]_vars
  /\ []((inFlightAtDelivery /\ pending = <<>>)
          => /\ lastProcessedId = Fingerprint(transcription.words)
             /\ formattedSegments = formatTranscript(transcription.words))

\* the list is empty or the whole result of formatTranscript for a delivered
\* word list
WholeList(list) ==
  list = <<>> \/ \E w \in delivered : list = formatTranscript(w)

\* C9: the list the active-segment effect reads is empty or formatTranscript(W)
\* for a delivered W, and a time update handled while a call is in flight
\* reads the list committed before, which it leaves as it is.
C9_NoTornSegmentList ==
  /\ [](WholeList(readList) /\ WholeList(formattedSegments))
  /\ [][(currentTime' # currentTime /\ pending # <<>>)
          => (readList' = formattedSegments
              /\ formattedSegments' = formattedSegments)]_vars

\* a time update computed an index on the committed, non-empty list while the
\* call for another word list was in flight
C9_Witness ==
  /\ lastOp = "time"
  /\ pending # <<>>
  /\ readList # <<>>
  /\ readList # Head(pending).segments
  /\ computed # <<>>

\* C10: a change of currentTime alone invokes formatTranscript for no word list
\* and leaves the segment list, lastProcessedId, the loading and the error
\* state as they are.
C10_TimeUpdateFrame ==
  [][currentTime' # currentTime
       => /\ formatCount' = formatCount
          /\ pending' = pending
          /\ formattedSegments' = formattedSegments
          /\ lastProcessedId' = lastProcessedId
          /\ isLoading' = isLoading
          /\ error' = error]_vars

\* a time update changed the active index while a call was in flight
C10_Witness ==
  /\ lastOp = "time"
  /\ didSet
  /\ pending # <<>>
  /\ isLoading

(***************************************************************************)
(* Properties of the helpers                                               *)
(***************************************************************************)
\* the fields of a clock string
Fields(clock) == Split(clock)

\* a field of at least two digits
IsPaddedNumber(field) ==
  Len(field) >= 2 /\ \A i \in 1..Len(field) : IsDigit(field[i])

FieldValue(field) == DigitsValue(field, 0)

\* a call of formatTranscript has returned
Formatted == fn = "formatTranscript"

HelloWorldText == <<"H", "e", "l", "l", "o", " ", "w", "o", "r", "l", "d", ".">>

NextTopicText == <<"N", "e", "x", "t", " ", "t", "o", "p", "i", "c", ".">>

NonBlank(word) ==
  ~IsNullEntry(word) /\ TextType(word) = "string" /\ Trim(word.text) # <<>>

\* every entry is a token whose text is a string
WellFormed(words) ==
  \A i \in 1..Len(words) : ~IsNullEntry(words[i]) /\ TextType(words[i]) = "string"

\* words[i] is the first token of a segment: the first word of the list, or a
\* word after a long pause
Opens(words, i) ==
  /\ NonBlank(words[i])
  /\ \/ \A j \in 1..(i - 1) : ~NonBlank(words[j])
     \/ isLongPause(words, i)

\* the positions of the first tokens of the segments, in list order
Openers(words) ==
  SelectSeq([i \in 1..Len(words) |-> i], LAMBDA i : Opens(words, i))

\* C12: the startTime of every segment formatTranscript returns is the clock
\* rendering of the start of the first non-blank token of the segment (0 when
\* it has none), also when the list begins with blank tokens.
C12_StartTimeOfFirstWord ==
  (Formatted /\ WellFormed(arg))
    => /\ Len(ret) = Len(Openers(arg))
       /\ \A k \in 1..Len(ret) :
            ret[k].startTime = formatTime(<<OrZero(arg[Openers(arg)[k]].start)>>)

\* every entry is a token with a start, and the starts are non-decreasing
SortedByStart(words) ==
  /\ \A i \in 1..Len(words) : ~IsNullEntry(words[i]) /\ words[i].start # <<>>
  /\ \A i \in 1..(Len(words) - 1) : words[i].start[1] <= words[i + 1].start[1]

\* C13: for a token list with non-decreasing starts, the startTime values of
\* the segments formatTranscript returns, read with timeToSeconds, are
\* non-decreasing in list order.
C13_SegmentStartsSorted ==
  (Formatted /\ SortedByStart(arg))
    => /\ \A k \in 1..Len(ret) : timeToSeconds(ret[k].startTime) # <<>>
       /\ \A k \in 1..(Len(ret) - 1) :
            timeToSeconds(ret[k].startTime)[1] <= timeToSeconds(ret[k + 1].startTime)[1]

\* three segments with increasing starts came out of a sorted list
C13_Witness ==
  /\ Formatted
  /\ SortedByStart(arg)
  /\ Len(ret) = 3
  /\ timeToSeconds(ret[1].startTime)[1] < timeToSeconds(ret[2].startTime)[1]
  /\ timeToSeconds(ret[2].startTime)[1] < timeToSeconds(ret[3].startTime)[1]

(***************************************************************************)
(* Properties of the hand-off and of malformed input                       *)
(***************************************************************************)
\* the starts of a fingerprint are non-decreasing
IdSortedByStart(id) ==
  \A k \in 1..(Len(id) - 1) : id[k][1][1] <= id[k + 1][1][1]

\* C14: every word list handed to formatTranscript is sorted by start: the
\* sort of Index comes before the first hand-off of a backend result to
\* Transcript.
C14_SortedBeforeHandOff ==
  \A k \in 1..Len(pending) : IdSortedByStart(pending[k].id)

\* C15: whatever the word list holds, also the entry null or a text that is
\* not a string, no exception escapes the words-changed path.
C15_NoEscapingException == ~Unmounted

\* this step resumes the call of the latest delivery, and formatTranscript
\* threw inside its try block for the list delivered
ResumesFailedFormat ==
  /\ pending # <<>>
  /\ pending' = Tail(pending)
  /\ Head(pending).request = nDeliveries
  /\ HoldsWords
  /\ TryFormat(transcription.words).threw

\* C16: when formatTranscript hits an internal error for the delivered list,
\* Transcript ends with an empty segment list and with its error state set.
C16_FormatErrorSurfaces ==
  [][ResumesFailedFormat => (formattedSegments' = <<>> /\ error' # "null")]_vars

(***************************************************************************)
(* Properties of the clock helpers                                         *)
(***************************************************************************)
\* the whole seconds of a time in milliseconds
Floor(ms) == ms \div 1000

\* C17: for every x >= 0, below and above one hour, timeToSeconds reads the
\* clock formatTime(x) as floor(x).
C17_ClockRoundTrip ==
  (fn = "roundTrip" /\ arg # <<>> /\ arg[1] >= 0) => ret = <<Floor(arg[1])>>

\* 1 h 1 min 1 s went through formatTime and timeToSeconds
C17_Witness == fn = "roundTrip" /\ arg = <<3661000>> /\ ret = <<3661>>

\* a field of the clock string is not a number
Malformed(timeStr) ==
  \E k \in 1..Len(Fields(timeStr)) : ToNumber(Fields(timeStr)[k]) = <<>>

\* C18: timeToSeconds returns a number for every string, and 0 for a string
\* with a field that is not numeric.
C18_MalformedClockIsZero ==
  fn = "timeToSeconds" => (ret # <<>> /\ (Malformed(arg) => ret = <<0>>))

\* the whole seconds formatTime renders: 0 for NaN and for a negative number
Rendered(seconds) ==
  IF seconds = <<>> THEN 0 ELSE IF seconds[1] < 0 THEN 0 ELSE Floor(seconds[1])

\* the clock string has the fields given, each a number of at least two digits
HasFields(clock, values) ==
  /\ Len(Fields(clock)) = Len(values)
  /\ \A k \in 1..Len(values) :
       IsPaddedNumber(Fields(clock)[k]) /\ FieldValue(Fields(clock)[k]) = values[k]

IsClockOf(clock, s) == HasFields(clock, <<s \div 3600, (s \div 60) % 60, s % 60>>)

\* the string is a number: digits only, and not empty
IsNumeric(chars) == chars # <<>> /\ \A i \in 1..Len(chars) : IsDigit(chars[i])

\* C20: convertToHHMMSS renders a number or a numeric string as the
\* three-field clock of that many seconds, also under one hour; returns a
\* string with two colons as it is; reads a string with one colon as MM:SS and
\* renders the three-field clock of minutes * 60 + seconds; and returns
\* 00:00:00 for an absent, empty or undefined argument.
C20_ConvertContract ==
  /\ fn = "convertNumber"
       => /\ arg = <<>> => ret = ZeroClock
          /\ arg # <<>> => Len(Fields(ret)) = 3
          /\ (arg # <<>> /\ arg[1] >= 0) => IsClockOf(ret, Floor(arg[1]))
  /\ fn = "convertString"
       => LET fields == Fields(arg)
          IN /\ arg = <<>> => ret = ZeroClock
             /\ IsNumeric(arg) => IsClockOf(ret, FieldValue(arg))
             /\ Len(fields) = 3 => ret = arg
             /\ (Len(fields) = 2 /\ ~Malformed(arg))
                  => IsClockOf(ret, FieldValue(fields[1]) * 60 + FieldValue(fields[2]))
  /\ fn = "convertUndefined" => ret = ZeroClock

\* the string 1:07 was rendered as 00:01:07
C20_Witness ==
  /\ fn = "convertString"
  /\ arg = <<"1", ":", "0", "7">>
  /\ ret = <<"0", "0", ":", "0", "1", ":", "0", "7">>

(***************************************************************************)
(* cleanText                                                               *)
(***************************************************************************)
\* two of the marks . , ! ? stand next to each other, or with only white
\* space between them
AdjacentMarks(text) ==
  \E i, j \in 1..Len(text) :
    /\ i < j
    /\ IsPunct(text[i])
    /\ IsPunct(text[j])
    /\ \A k \in (i + 1)..(j - 1) : IsSpace(text[k])

\* C21: cleanText is idempotent: cleanText(cleanText(x)) = cleanText(x) for
\* every string x, the strings with runs of marks included.
C21_CleanTextIdempotent ==
  fn = "cleanTwice" => ret = cleanText(arg)

\* cleanText was applied twice to a text with two marks in a row that the
\* first application changed
C21_Witness ==
  /\ fn = "cleanTwice"
  /\ AdjacentMarks(arg)
  /\ ret # arg
  /\ ret = cleanText(arg)

\* no white space at either end and no two spaces in a row
SingleSpaced(text) ==
  /\ text # <<>> => ~IsSpace(text[1]) /\ ~IsSpace(text[Len(text)])
  /\ \A i \in 1..(Len(text) - 1) : ~(IsSpace(text[i]) /\ IsSpace(text[i + 1]))

\* no space right before a mark, and after each mark white space or the end
MarksAttached(text) ==
  \A i \in 1..Len(text) :
    IsPunct(text[i])
      => /\ i > 1 => ~IsSpace(text[i - 1])
         /\ i < Len(text) => IsSpace(text[i + 1])

HelloNextCleaned ==
  <<"H", "e", "l", "l", "o", ",", " ", "w", "o", "r", "l", "d", ".", " ",
    "N", "e", "x", "t">>

\* C22 as stated: for every input string the output of cleanText is in normal
\* form: no leading or trailing white space, no run of more than one space,
\* no space right before a mark . , ! ?, and each mark followed by white space
\* or the end of the string; the example text becomes "Hello, world. Next".
C22_NormalForm ==
  fn = "cleanText"
    => /\ SingleSpaced(ret)
       /\ MarksAttached(ret)
       /\ arg = HelloNextText => ret = HelloNextCleaned

\* C22 amended: the output of cleanText has no white space at either end and
\* no two spaces in a row for every input; for an input in which no two marks
\* are adjacent or separated by white space only, no space stands before a
\* mark and each mark is followed by white space or the end; the example text
\* becomes "Hello, world. Next".
C22_NormalFormWithoutAdjacentMarks ==
  fn = "cleanText"
    => /\ SingleSpaced(ret)
       /\ ~AdjacentMarks(arg) => MarksAttached(ret)
       /\ arg = HelloNextText => ret = HelloNextCleaned

\* a text with a space before a mark and a letter after it, and no two
\* marks in a row, was cleaned
C22_Witness ==
  /\ fn = "cleanText"
  /\ arg = <<"a", " ", ",", "a">>
  /\ ret = <<"a", ",", " ", "a">>

(***************************************************************************)
(* Segments with the same start                                            *)
(***************************************************************************)
\* segment i is the first of several segments with its start, and the time
\* is at that start or after it and before every later start
AtSharedStart(segs, i, t) ==
  /\ \E j \in (i + 1)..Len(segs) : StartMs(segs, j) = StartMs(segs, i)
  /\ \A k \in 1..(i - 1) : StartMs(segs, k) # StartMs(segs, i)
  /\ t >= StartMs(segs, i)
  /\ \A k \in 1..Len(segs) : StartMs(segs, k) > StartMs(segs, i) => t < StartMs(segs, k)

\* C23: when two segments of the list have the same start time, the
\* active-segment search returns the earlier of the two indices for a
\* playback time equal to that start or just after it.
C23_EarlierIndexWins ==
  \A i \in 1..Len(formattedSegments) :
    AtSharedStart(formattedSegments, i, currentTime) => activeSegmentIndex = i - 1

(***************************************************************************)
(* The segments as a partition of the words                                *)
(***************************************************************************)
\* every entry is null or a token whose text is a string
StringTexts(words) ==
  \A i \in 1..Len(words) : IsNullEntry(words[i]) \/ TextType(words[i]) = "string"

\* the positions of the non-blank tokens, in list order
WordPositions(words) ==
  SelectSeq([i \in 1..Len(words) |-> i], LAMBDA i : NonBlank(words[i]))

\* the trimmed texts of the non-blank tokens, in list order
WordTexts(words) ==
  [k \in 1..Len(WordPositions(words)) |-> Trim(words[WordPositions(words)[k]].text)]

\* the texts of the segments when the k-th word opens a new segment for each
\* k of openings: the words of each group joined by a space and cleaned
RECURSIVE SplitTexts(_, _, _, _, _)
SplitTexts(texts, openings, k, group, out) ==
  IF k > Len(texts)
  THEN IF group = <<>> THEN out ELSE Append(out, cleanText(JoinSpace(group)))
  ELSE IF k \in openings /\ group # <<>>
  THEN SplitTexts(texts, openings, k + 1, <<texts[k]>>,
                  Append(out, cleanText(JoinSpace(group))))
  ELSE SplitTexts(texts, openings, k + 1, Append(group, texts[k]), out)

SegmentTexts(segs) == [k \in 1..Len(segs) |-> segs[k].text]

\* the segments are the words split at these openings
SplitAt(words, segs, openings) ==
  SegmentTexts(segs) = SplitTexts(WordTexts(words), openings, 1, <<>>, <<>>)

\* C24: formatTranscript returns an empty list for an empty or missing
\* input, and exactly one segment for an input of a single token with
\* non-blank text.
C24_EmptyAndSingle ==
  /\ (Formatted /\ arg = <<>>) => ret = <<>>
  /\ fn = "formatMissing" => ret = <<>>
  /\ (Formatted /\ Len(arg) = 1 /\ NonBlank(arg[1])) => Len(ret) = 1

\* one segment came out of a list of one word
C24_Witness ==
  /\ Formatted
  /\ Len(arg) = 1
  /\ NonBlank(arg[1])
  /\ SegmentTexts(ret) = <<Trim(arg[1].text)>>

\* C26: the segments formatTranscript returns partition the non-blank tokens
\* of the input in order: they are the trimmed texts of the non-blank tokens,
\* in list order, cut into consecutive groups of at least one token; blank
\* tokens contribute nothing and no segment has an empty text.
C26_SegmentPartition ==
  (Formatted /\ StringTexts(arg))
    => /\ \A k \in 1..Len(ret) : ret[k].text # <<>>
       /\ \E openings \in SUBSET (2..Len(WordPositions(arg))) :
            /\ SplitAt(arg, ret, openings)
            /\ Len(ret) = IF WordPositions(arg) = <<>> THEN 0
                          ELSE Cardinality(openings) + 1

\* a list of two different words and a blank token came out as two segments
C26_Witness ==
  /\ Formatted
  /\ StringTexts(arg)
  /\ Len(WordPositions(arg)) = 2
  /\ Len(arg) = 3
  /\ SegmentTexts(ret) = <<<<"a">>, <<"b", ".">>>>

\* the end of an entry, 0 for null or when it has none
EndOf(word) == IF IsNullEntry(word) THEN 0 ELSE OrZero(word.end)

\* the words that open a new segment as C27 has it: a word after the first
\* one whose start and whose preceding entry's end are above 0 and more than
\* 2 s apart
OpeningsByPrevEntry(words) ==
  {k \in 2..Len(WordPositions(words)) :
     LET i == WordPositions(words)[k]
     IN /\ EndOf(words[i - 1]) > 0
        /\ OrZero(words[i].start) > 0
        /\ OrZero(words[i].start) - EndOf(words[i - 1]) > 2000}

\* C27: formatTranscript opens a new segment at token i exactly when token i
\* is non-blank, the buffer is non-empty, words[i-1].end > 0, words[i].start
\* > 0 and words[i].start - words[i-1].end > 2 strictly; a gap of exactly
\* 2.0 s, a current token starting at 0 and a previous token ending at 0 or
\* without a timestamp never open one.
C27_OpensExactlyOnLongPause ==
  (Formatted /\ StringTexts(arg)) => SplitAt(arg, ret, OpeningsByPrevEntry(arg))

\* two words exactly 2.0 s apart came out as one segment
C27_Witness ==
  /\ Formatted
  /\ arg = <<Token(<<"b", ".">>, <<1000>>), Token(<<"a">>, <<3500>>)>>
  /\ SegmentTexts(ret) = <<<<"b", ".", " ", "a">>>>

\* the words that must open a new segment as C28 has it: a word whose start
\* and whose preceding word's end are above 0 and more than 2 s apart
OpeningsByPrevWord(words) ==
  {k \in 2..Len(WordPositions(words)) :
     LET u == words[WordPositions(words)[k - 1]]
         v == words[WordPositions(words)[k]]
     IN /\ OrZero(u.end) > 0
        /\ OrZero(v.start) > 0
        /\ OrZero(v.start) - OrZero(u.end) > 2000}

\* C28: for any two consecutive non-blank words u, v of the input, blank
\* tokens possibly lying between them, with u.end > 0, v.start > 0 and
\* v.start - u.end > 2, formatTranscript places u and v in different
\* segments.
C28_PauseForcesBoundary ==
  (Formatted /\ WellFormed(arg))
    => \E openings \in SUBSET (2..Len(WordPositions(arg))) :
         /\ OpeningsByPrevWord(arg) \subseteq openings
         /\ SplitAt(arg, ret, openings)

(***************************************************************************)
(* A word list whose segmentation failed                                   *)
(***************************************************************************)
\* this step delivers a word list for which formatTranscript has failed
\* before, no call being pending
RedeliversFailed ==
  /\ nDeliveries' # nDeliveries
  /\ ~transcription'.isNull
  /\ transcription'.words # <<>>
  /\ TryFormat(transcription'.words).threw
  /\ formatCount[Fingerprint(transcription'.words)] > 0
  /\ pending = <<>>

\* C29: a segmentation failure is retryable: after formatTranscript has
\* failed internally for a token sequence W, delivering W again attempts the
\* segmentation again and is not skipped by the fingerprint guard.
C29_FailedListIsRetried ==
  [][RedeliversFailed
       => formatCount'[Fingerprint(transcription'.words)]
            > formatCount[Fingerprint(transcription'.words)]]_vars

(***************************************************************************)
(* Properties of the Index page                                            *)
(***************************************************************************)
\* every token ends no earlier than it starts
StartBeforeEnd(words) ==
  \A i \in 1..Len(words) :
    words[i].start # <<>> /\ words[i].end # <<>> /\ words[i].start[1] <= words[i].end[1]

\* the committed list is the segmentation of a delivered word list that is
\* sorted by start, with start <= end for every token
SegmentsOfSortedWords ==
  \E words \in delivered :
    /\ SortedByStart(words)
    /\ StartBeforeEnd(words)
    /\ formattedSegments = formatTranscript(words)

\* C25: seek round trip: for a segment list built from tokens sorted by start
\* with start <= end, a click on the timestamp of segment i calls onSeek with
\* timeToSeconds of that segment's startTime, sets the shared currentTime
\* to that value, and the next active-segment computation makes segment i
\* the active one.
C25_SeekRoundTrip ==
  (lastOp = "click" /\ SegmentsOfSortedWords)
    => /\ seekTo = timeToSeconds(formattedSegments[clicked].startTime)
       /\ currentTime = seekTo[1] * 1000
       /\ activeSegmentIndex = clicked - 1

\* the timestamp of the second segment was clicked while another segment was
\* active, and the second segment is the active one now
C25_Witness ==
  /\ lastOp = "click"
  /\ SegmentsOfSortedWords
  /\ clicked = 2
  /\ didSet
  /\ activeSegmentIndex = 1
  /\ currentTime = StartMs(formattedSegments, 2)

\* C30: ingestion reaches a fixed point: after a transcription result with a
\* word list is stored in Index, the sort effect does not run again on the
\* state it has written itself, so it runs a finite number of times and the
\* state stops changing; and Transcript sees at most one further distinct
\* word sequence after the result.
C30_IngestionFixedPoint ==
  /\ sortRuns <= 1
  /\ Cardinality(delivered) <= 2

(***************************************************************************)
(* The clock as displayed                                                  *)
(***************************************************************************)
\* C37: display normalisation keeps the time value and is idempotent: for
\* every x >= 0, timeToSeconds(convertToHHMMSS(formatTime(x))) = floor(x),
\* and convertToHHMMSS(convertToHHMMSS(v)) = convertToHHMMSS(v) for every
\* input v.
C37_DisplayKeepsTime ==
  /\ (fn = "displayTrip" /\ arg # <<>> /\ arg[1] >= 0) => ret = <<Floor(arg[1])>>
  /\ fn = "convertTwice" => ret = arg

\* 1 min 15 s went through formatTime, convertToHHMMSS and timeToSeconds
C37_Witness ==
  /\ fn = "displayTrip"
  /\ arg = <<75000>>
  /\ ret = <<75>>

(***************************************************************************)
(* Segments of a sorted word list and the active-segment search            *)
(***************************************************************************)
\* the start of segment k in whole seconds
StartSeconds(segs, k) == timeToSeconds(segs[k].startTime)[1]

\* C33: for tokens sorted by start with start <= end, the start times of
\* consecutive segments formatTranscript returns, in seconds, are strictly
\* increasing and differ by at least 2, so no two segments share a start
\* time and every segment has a non-empty active interval.
C33_SegmentStartsApart ==
  (Formatted /\ SortedByStart(arg) /\ StartBeforeEnd(arg))
    => \A k \in 1..(Len(ret) - 1) :
         StartSeconds(ret, k + 1) - StartSeconds(ret, k) >= 2

\* two words exactly 2.5 s apart came out as segments starting 3 s apart
C33_Witness ==
  /\ Formatted
  /\ arg = <<Token(<<"a">>, <<1000>>), Token(<<"b", ".">>, <<4000>>)>>
  /\ Len(ret) = 2
  /\ StartSeconds(ret, 1) = 1
  /\ StartSeconds(ret, 2) = 4

\* the segment (1-based) the word at position p is placed in
SegmentOf(words, p) ==
  Cardinality({k \in 1..Len(Openers(words)) : Openers(words)[k] <= p})

\* C32: word-level synchronisation: for tokens sorted by start with start <=
\* end and non-blank text, every token placed in segment i has the
\* active-segment search over the segments return i at the token's start.
C32_WordLevelSync ==
  (/\ Formatted
   /\ SortedByStart(arg)
   /\ StartBeforeEnd(arg)
   /\ \A p \in 1..Len(arg) : NonBlank(arg[p]))
    => /\ Len(ret) = Len(Openers(arg))
       /\ \A p \in 1..Len(arg) :
            FindActive(ret, arg[p].start[1]) = SegmentOf(arg, p) - 1

\* the second word of the first segment and the word of the second segment
\* are found in their segments
C32_Witness ==
  /\ Formatted
  /\ arg = <<Token(<<"a">>, <<0>>), Token(<<"b", ".">>, <<1000>>), Token(<<"a">>, <<4000>>)>>
  /\ Len(ret) = 2
  /\ FindActive(ret, 1000) = 0
  /\ FindActive(ret, 4000) = 1

(***************************************************************************)
(* Properties of the polling loop                                          *)
(***************************************************************************)
\* C34: transcribeAudio returns the transcription whenever some status poll
\* reports completed, at any attempt from the 1st to the 30th inclusive;
\* 'Transcription timed out' is thrown only when none of the 30 polls
\* reported completion.
C34_CompletedIsReturned ==
  /\ resultStatus = "completed" => returned /\ thrown = "none"
  /\ thrown = "timeout" => resultStatus # "completed"

\* C35: the polling loop terminates: it issues at most 30 status requests and
\* then ends in exactly one of three outcomes (result returned, backend
\* error thrown, timeout thrown), whatever statuses the backend reports; no
\* request follows the end.
C35_PollingTerminates ==
  /\ [](/\ attempts <= maxAttempts
        /\ attempts = maxAttempts => PollEnded
        /\ ~(returned /\ thrown # "none")
        /\ thrown \in {"none", "status", "failed", "timeout"})
  /\ [][attempts' # attempts => ~PollEnded]_vars

\* thirty polls that reported processing, and the timeout thrown
C35_Witness ==
  /\ attempts = maxAttempts
  /\ resultStatus = "processing"
  /\ thrown = "timeout"
  /\ ~returned

(***************************************************************************)
(* Properties of the MediaPlayer                                           *)
(***************************************************************************)
\* C36: seek suppression: from the first slider value change of a drag until
\* that drag's commit, isSeeking stays true and no playback-time update is
\* propagated through onTimeUpdate, for every interleaving of drags, commits
\* and the 100 ms reset timers left by earlier commits.
C36_SeekSuppression ==
  dragging => isSeeking /\ ~propagated

(***************************************************************************)
(* Properties of the file selection                                        *)
(***************************************************************************)
\* the call of the current selection is at an await
CurrentInFlight ==
  /\ selectedFile # 0
  /\ \E k \in 1..Len(calls) : calls[k].selection = selectedFile

\* C31: stale backend result: when the user resets with Upload New File and
\* selects file B while handleFileSelected for file A is still awaiting the
\* backend, A's transcription and summary are never stored after B was
\* selected: a non-null transcriptionData (and summary) belongs to the file
\* selected now, and isProcessing stays true while B's request is in flight.
C31_NoStaleResult ==
  /\ selectedFile # 0 /\ transcriptionData # 0 => transcriptionData = selectedFile
  /\ selectedFile # 0 /\ summary # 0 => summary = selectedFile
  /\ CurrentInFlight => isProcessing
=============================================================================
